---- MODULE Spec2Model ----
(***************************************************************************)
(* Model of the benchmarking scripts of the repository:                    *)
(*   compare-models.py              the per-model / per-test loop, the     *)
(*                                  scorer, the reasoning-field extraction *)
(*                                  and the recommendation;                *)
(*   tests/unit/api/test-both-models.py   the per-model loop;              *)
(*   test-deepseek-timeout.py       the single call and its report.        *)
(*                                                                         *)
(* A text (a Python str) is a sequence of atoms.  An atom is a chunk of    *)
(* characters; the text it stands for is the concatenation of its atoms.   *)
(* Every literal the scripts search for is written as a sequence of whole  *)
(* atoms ("42" is <<"4","2">>, "web" is <<"w","e","b">>, the fence is      *)
(* three backticks), and no atom contains such a literal in its inside    *)
(* or can complete one across an atom boundary, so a substring of the     *)
(* text is a contiguous sub-sequence of atoms.                             *)
(*                                                                         *)
(* Scores are kept in half points: 0, 1, 2 stand for 0, 0.5 and 1.         *)
(* Averages are kept as exact fractions <<numerator, denominator>>.        *)
(***************************************************************************)
EXTENDS Integers, Sequences, FiniteSets, TLC

VARIABLES
    script,         \* which script this run executes
    pc,             \* position of the script
    mi,             \* index into models of the model under test
    ti,             \* index into test_cases of the next test case
    scores,         \* compare-models.py: scores of the current model
    total_time,     \* compare-models.py: total_time of the current model
    total_tokens,   \* compare-models.py: total_tokens of the current model
    results,        \* compare-models.py: results[model], NoStats until summarised
    test,           \* scorer / extraction runs: index of the test case
    reasoning,      \* extraction runs: message.reasoning_content
    content,        \* scorer / extraction runs: content
    score,          \* scorer runs: score
    output,         \* the lines printed so far (extraction runs: the message's content)
    calls,          \* history: API calls issued, per model and test case
    failed,         \* history: iterations of the current loop that raised
    ok_time,        \* history: elapsed time of the iterations that did not raise
    ok_tokens       \* history: tokens of the iterations that did not raise

vars == <<script, pc, mi, ti, scores, total_time, total_tokens, results, test,
          reasoning, content, score, output, calls, failed, ok_time, ok_tokens>>

(***************************************************************************)
(* Python values                                                           *)
(***************************************************************************)
\* None
NoneV == [kind |-> "none"]
\* an attribute the object does not have (hasattr is False)
AbsentV == [kind |-> "absent"]
\* a str
Str(t) == [kind |-> "str", v |-> t]

IsNone(x) == x.kind = "none"
IsStr(x) == x.kind = "str"
\* truth value of an optional str: None and "" are false
Truthy(x) == IsStr(x) /\ Len(x.v) > 0

(***************************************************************************)
(* str operations                                                          *)
(***************************************************************************)
\* str.lower() on one atom
LowerAtom(a) ==
    CASE a = "W" -> "w"
      [] a = "E" -> "e"
      [] a = "B" -> "b"
      [] a = "X" -> "x"
      [] OTHER -> a

Lower(s) == [i \in 1..Len(s) |-> LowerAtom(s[i])]

\* p occurs in s at position i
MatchAt(s, p, i) ==
    /\ i >= 1
    /\ i + Len(p) - 1 <= Len(s)
    /\ \A k \in 1..Len(p) : s[i + k - 1] = p[k]

\* p in s
Contains(s, p) == \E i \in 1..(Len(s) + 1) : MatchAt(s, p, i)

\* s.find(p) + 1, and 0 when p does not occur
Find(s, p) ==
    IF Contains(s, p)
    THEN CHOOSE i \in 1..(Len(s) + 1) :
            MatchAt(s, p, i) /\ \A j \in 1..(i - 1) : ~MatchAt(s, p, j)
    ELSE 0

\* s.split(sep), sep not empty
RECURSIVE Split(_, _)
Split(s, sep) ==
    LET i == Find(s, sep)
    IN  IF i = 0
        THEN <<s>>
        ELSE <<SubSeq(s, 1, i - 1)>> \o Split(SubSeq(s, i + Len(sep), Len(s)), sep)

IsSpace(a) == a \in {" ", "\n"}

RECURSIVE LStrip(_)
LStrip(s) == IF Len(s) > 0 /\ IsSpace(s[1]) THEN LStrip(Tail(s)) ELSE s

RECURSIVE RStrip(_)
RStrip(s) ==
    IF Len(s) > 0 /\ IsSpace(s[Len(s)]) THEN RStrip(SubSeq(s, 1, Len(s) - 1)) ELSE s

\* s.strip()
Strip(s) == RStrip(LStrip(s))

\* s.startswith(p)
StartsWith(s, p) == MatchAt(s, p, 1)

(***************************************************************************)
(* json.loads                                                              *)
(* A parse result is [ok, val, next]: next is the position after the       *)
(* value.  Values: [kind "dict", keys, kinds], [kind "list", strs],        *)
(* [kind "str", v], [kind "num"], [kind "bool"], [kind "null"].            *)
(* A dict keeps its keys and the kind of the value under each key; a list  *)
(* keeps the texts of its str elements.                                    *)
(***************************************************************************)
JsonFail == [ok |-> FALSE]
JsonOk(val, next) == [ok |-> TRUE, val |-> val, next |-> next]

IsDigit(a) == a \in {"1", "2", "4"}
IsJsonSpace(a) == a \in {" ", "\n"}

RECURSIVE SkipWs(_, _)
SkipWs(s, i) == IF i <= Len(s) /\ IsJsonSpace(s[i]) THEN SkipWs(s, i + 1) ELSE i

\* position of the closing quote of the string opened before i, 0 if none
RECURSIVE StringEnd(_, _)
StringEnd(s, i) ==
    IF i > Len(s) THEN 0
    ELSE IF s[i] = "\"" THEN i
    ELSE IF s[i] = "\n" THEN 0
    ELSE StringEnd(s, i + 1)

RECURSIVE NumberEnd(_, _)
NumberEnd(s, i) == IF i <= Len(s) /\ IsDigit(s[i]) THEN NumberEnd(s, i + 1) ELSE i

RECURSIVE ParseValue(_, _)
RECURSIVE ParseMembers(_, _, _, _)
RECURSIVE ParseItems(_, _, _)

\* the members of an object after "{" or ","; keys and kinds collected so far
ParseMembers(s, i, keys, kinds) ==
    LET k == SkipWs(s, i)
    IN  IF k > Len(s) \/ s[k] # "\"" THEN JsonFail
        ELSE LET e == StringEnd(s, k + 1)
             IN  IF e = 0 THEN JsonFail
                 ELSE LET key == SubSeq(s, k + 1, e - 1)
                          c == SkipWs(s, e + 1)
                      IN  IF c > Len(s) \/ s[c] # ":" THEN JsonFail
                          ELSE LET r == ParseValue(s, SkipWs(s, c + 1))
                               IN  IF ~r.ok THEN JsonFail
                                   ELSE LET n == SkipWs(s, r.next)
                                            keys2 == keys \cup {key}
                                            kinds2 == [x \in keys2 |->
                                                         IF x = key THEN r.val.kind
                                                         ELSE kinds[x]]
                                        IN  IF n > Len(s) THEN JsonFail
                                            ELSE IF s[n] = "}"
                                            THEN JsonOk([kind |-> "dict", keys |-> keys2,
                                                         kinds |-> kinds2], n + 1)
                                            ELSE IF s[n] = ","
                                            THEN ParseMembers(s, n + 1, keys2, kinds2)
                                            ELSE JsonFail

\* the elements of an array after "[" or ","; str elements collected so far
ParseItems(s, i, strs) ==
    LET r == ParseValue(s, SkipWs(s, i))
    IN  IF ~r.ok THEN JsonFail
        ELSE LET n == SkipWs(s, r.next)
                 strs2 == IF r.val.kind = "str" THEN strs \cup {r.val.v} ELSE strs
             IN  IF n > Len(s) THEN JsonFail
                 ELSE IF s[n] = "]" THEN JsonOk([kind |-> "list", strs |-> strs2], n + 1)
                 ELSE IF s[n] = "," THEN ParseItems(s, n + 1, strs2)
                 ELSE JsonFail

\* one value starting exactly at i
ParseValue(s, i) ==
    IF i > Len(s) THEN JsonFail
    ELSE IF s[i] = "{"
    THEN LET k == SkipWs(s, i + 1)
         IN  IF k <= Len(s) /\ s[k] = "}"
             THEN JsonOk([kind |-> "dict", keys |-> {}, kinds |-> <<>>], k + 1)
             ELSE ParseMembers(s, i + 1, {}, <<>>)
    ELSE IF s[i] = "["
    THEN LET k == SkipWs(s, i + 1)
         IN  IF k <= Len(s) /\ s[k] = "]"
             THEN JsonOk([kind |-> "list", strs |-> {}], k + 1)
             ELSE ParseItems(s, i + 1, {})
    ELSE IF s[i] = "\""
    THEN LET e == StringEnd(s, i + 1)
         IN  IF e = 0 THEN JsonFail
             ELSE JsonOk(Str(SubSeq(s, i + 1, e - 1)), e + 1)
    ELSE IF IsDigit(s[i]) THEN JsonOk([kind |-> "num"], NumberEnd(s, i))
    ELSE IF s[i] \in {"true", "false"} THEN JsonOk([kind |-> "bool"], i + 1)
    ELSE IF s[i] = "null" THEN JsonOk([kind |-> "null"], i + 1)
    ELSE JsonFail

\* json.loads(s): [ok |-> FALSE] stands for the JSONDecodeError
JsonLoads(s) ==
    LET r == ParseValue(s, SkipWs(s, 1))
    IN  IF ~r.ok THEN JsonFail
        ELSE IF SkipWs(s, r.next) = Len(s) + 1 THEN r
        ELSE JsonFail

\* key in val: [raised |-> TRUE] stands for the TypeError of a value that is
\* no container
PyIn(key, val) ==
    CASE val.kind = "dict" -> [raised |-> FALSE, v |-> key \in val.keys]
      [] val.kind = "list" -> [raised |-> FALSE, v |-> key \in val.strs]
      [] val.kind = "str" -> [raised |-> FALSE, v |-> Contains(val.v, key)]
      [] OTHER -> [raised |-> TRUE, v |-> FALSE]

(***************************************************************************)
(* compare-models.py: the test cases and the literals                      *)
(***************************************************************************)
\* the atom of the backtick character, which a TLA+ string cannot hold
BQ == "~"
\* "```"
FENCE == <<BQ, BQ, BQ>>
\* "json"
JSON_TAG == <<"j", "s", "o", "n">>
\* "function", "fibonacci", "fib"
FUNCTION == <<"function">>
FIBONACCI == <<"fib", "onacci">>
FIB == <<"fib">>
\* "type", "tasks"
TYPE == <<"type">>
TASKS == <<"tasks">>

test_cases ==
    << [name |-> "Simple Math", expected |-> <<"4", "2">>],
       [name |-> "Task Decomposition", check_json |-> TRUE],
       [name |-> "Tool Calling Decision", expected_contains |-> <<"w", "e", "b">>],
       [name |-> "Code Generation", check_code |-> TRUE] >>

R1 == "DeepSeek-R1-0528"
V3 == "DeepSeek-V3.1"
models == <<R1, V3>>

\* the scores 0, 0.5 and 1 in half points
ScoreZero == 0
ScoreHalf == 1
ScoreOne == 2

(***************************************************************************)
(* compare-models.py: reasoning-field extraction (lines 73-86)             *)
(* msg_content is message.content, reasoning_content is AbsentV when the   *)
(* message has no such attribute.  The result is [raised, content];        *)
(* raised stands for the TypeError of `"```" in None`.                     *)
(***************************************************************************)
\* the extraction without the second .strip(), after the tag is cut
ExtractContentNoRestrip(msg_content, reasoning_content) ==
    IF IsNone(msg_content) /\ reasoning_content.kind # "absent"
    THEN IF ~IsStr(reasoning_content)
         THEN [raised |-> TRUE, content |-> msg_content]
         ELSE IF Contains(reasoning_content.v, FENCE)
         THEN LET parts == Split(reasoning_content.v, FENCE)
                  c == Strip(parts[2])
              IN  IF StartsWith(c, JSON_TAG)
                  THEN [raised |-> FALSE, content |-> Str(SubSeq(c, 4 + 1, Len(c)))]
                  ELSE [raised |-> FALSE, content |-> Str(c)]
         ELSE [raised |-> FALSE, content |-> reasoning_content]
    ELSE [raised |-> FALSE, content |-> msg_content]

ExtractContent(msg_content, reasoning_content) ==
    IF IsNone(msg_content) /\ reasoning_content.kind # "absent"
    THEN IF ~IsStr(reasoning_content)
         THEN [raised |-> TRUE, content |-> msg_content]
         ELSE IF Contains(reasoning_content.v, FENCE)
         THEN LET parts == Split(reasoning_content.v, FENCE)
              IN  IF Len(parts) > 1
                  THEN LET c == Strip(parts[2])
                       IN  IF StartsWith(c, JSON_TAG)
                           THEN [raised |-> FALSE,
                                 content |-> Str(Strip(SubSeq(c, 4 + 1, Len(c))))]
                           ELSE [raised |-> FALSE, content |-> Str(c)]
                  ELSE [raised |-> FALSE, content |-> msg_content]
         ELSE [raised |-> FALSE, content |-> reasoning_content]
    ELSE [raised |-> FALSE, content |-> msg_content]

(***************************************************************************)
(* compare-models.py: the scorer (lines 88-107)                            *)
(***************************************************************************)
\* "expected" in test and content and test["expected"].lower() in content.lower()
ExpectedRule(t, c) ==
    /\ "expected" \in DOMAIN t
    /\ Truthy(c)
    /\ Contains(Lower(c.v), Lower(t.expected))

\* the substring rule without the .lower() of the response
ExpectedContainsRuleCaseSensitive(t, c) ==
    /\ "expected_contains" \in DOMAIN t
    /\ Truthy(c)
    /\ Contains(c.v, Lower(t.expected_contains))

\* "expected_contains" in test and content and ... in content.lower()
ExpectedContainsRule(t, c) ==
    /\ "expected_contains" \in DOMAIN t
    /\ Truthy(c)
    /\ Contains(Lower(c.v), Lower(t.expected_contains))

\* the body of the check_json branch: the try block and its bare except
JsonScore(c) ==
    LET r == JsonLoads(c.v)
    IN  IF ~r.ok THEN ScoreZero
        ELSE LET a == PyIn(TYPE, r.val)
             IN  IF a.raised THEN ScoreZero
                 ELSE IF ~a.v THEN ScoreZero
                 ELSE LET b == PyIn(TASKS, r.val)
                      IN  IF b.raised THEN ScoreZero
                          ELSE IF b.v THEN ScoreOne
                          ELSE ScoreZero

\* the check_code branch with `or` for `and`
CodeScoreEitherMarker(c) ==
    IF Contains(c.v, FUNCTION) \/ (Contains(c.v, FIBONACCI) \/ Contains(c.v, FIB))
    THEN ScoreOne
    ELSE ScoreZero

\* the body of the check_code branch
CodeScore(c) ==
    IF Contains(c.v, FUNCTION) /\ (Contains(c.v, FIBONACCI) \/ Contains(c.v, FIB))
    THEN ScoreOne
    ELSE ScoreZero

\* the if / elif / else chain
Score(t, c) ==
    IF ExpectedRule(t, c) THEN ScoreOne
    ELSE IF ExpectedContainsRule(t, c) THEN ScoreOne
    ELSE IF "check_json" \in DOMAIN t /\ Truthy(c) THEN JsonScore(c)
    ELSE IF "check_code" \in DOMAIN t /\ Truthy(c) THEN CodeScore(c)
    ELSE ScoreHalf

(***************************************************************************)
(* Bounds and the inputs the runs draw                                     *)
(***************************************************************************)
\* the longest elapsed time of one call, in clock ticks
MaxElapsed == 1
\* the largest usage.total_tokens of one call
MaxTokens == 1
\* the largest number of pieces a generated text is made of
MaxPieces == 5

Q == "\""

\* all concatenations of at most n pieces
RECURSIVE TextsUpTo(_, _)
TextsUpTo(pieces, n) ==
    IF n = 0 THEN {<<>>}
    ELSE LET shorter == TextsUpTo(pieces, n - 1)
         IN  shorter \cup {t \o p : t \in shorter, p \in pieces}

\* the pieces the response texts of test case t are made of
ScorePieces(t) ==
    CASE t = 1 -> {<<"4">>, <<"2">>, <<"x">>, <<" ">>}
      [] t = 2 -> {<<"{">>, <<"}">>, <<",">>, <<Q, "type", Q, ":", "1">>,
                   <<Q, "tasks", Q, ":", "[", "]">>, <<Q, "type", " ", "tasks", Q>>}
      [] t = 3 -> {<<"w">>, <<"e">>, <<"b">>, <<"W">>, <<"E">>, <<"B">>}
      [] t = 4 -> {<<"function">>, <<"fib">>, <<"onacci">>, <<"const">>, <<" ">>}

\* further response texts of the JSON test case: values that are no objects,
\* objects with other members, white space
JsonSamples ==
    { <<"[", Q, "type", Q, ",", Q, "tasks", Q, "]">>,
      <<"[", Q, "type", Q, "]">>,
      <<"[", "]">>,
      <<"4", "2">>,
      <<"null">>,
      <<"true">>,
      <<Q, "type", Q>>,
      <<"x">>,
      <<" ", "{", Q, "tasks", Q, ":", "1", ",", " ", Q, "type", Q, ":", "null", "}", "\n">>,
      <<"{", Q, "tasks", Q, ":", "{", Q, "type", Q, ":", "1", "}", "}">>,
      <<"{", Q, "type", Q, ":", Q, "tasks", Q, "}">>,
      <<BQ, BQ, BQ, "j", "s", "o", "n", "\n", "{", "}", BQ, BQ, BQ>> }

\* the response contents a scorer run draws for test case t
ScoreContents(t) ==
    {NoneV} \cup {Str(s) : s \in TextsUpTo(ScorePieces(t), MaxPieces)
                              \cup (IF t = 2 THEN JsonSamples ELSE {})}

\* the pieces the reasoning texts are made of
ReasoningPieces == {FENCE, JSON_TAG, <<"t", "s">>, <<" ">>, <<"x">>, <<BQ>>}

\* the reasoning fields an extraction run draws
ReasoningValues ==
    {AbsentV, NoneV} \cup {Str(s) : s \in TextsUpTo(ReasoningPieces, MaxPieces)}

\* the responses the loop of compare-models.py draws for test case t:
\* [content, reasoning_content] of the message
LoopMessages(t) ==
    CASE t = 1 -> { [content |-> Str(<<"4", "2">>), reasoning_content |-> AbsentV],
                    [content |-> Str(<<"x">>), reasoning_content |-> AbsentV],
                    [content |-> Str(<<>>), reasoning_content |-> AbsentV],
                    [content |-> NoneV, reasoning_content |-> AbsentV],
                    [content |-> NoneV, reasoning_content |-> NoneV],
                    [content |-> NoneV, reasoning_content |-> Str(<<"x", "4", "2">>)] }
      [] t = 2 -> { [content |-> Str(<<"{", Q, "type", Q, ":", "1", ",", Q, "tasks", Q,
                                       ":", "[", "]", "}">>),
                     reasoning_content |-> AbsentV],
                    [content |-> Str(<<"x">>), reasoning_content |-> AbsentV],
                    [content |-> NoneV, reasoning_content |-> AbsentV],
                    [content |-> NoneV, reasoning_content |-> NoneV],
                    [content |-> NoneV,
                     reasoning_content |-> Str(<<"x", BQ, BQ, BQ, "j", "s", "o", "n", "\n",
                                                 "{", "}", BQ, BQ, BQ>>)] }
      [] t = 3 -> { [content |-> Str(<<"W", "E", "B">>), reasoning_content |-> AbsentV],
                    [content |-> Str(<<"b">>), reasoning_content |-> AbsentV],
                    [content |-> NoneV, reasoning_content |-> AbsentV],
                    [content |-> NoneV, reasoning_content |-> NoneV] }
      [] t = 4 -> { [content |-> Str(<<"function", " ", "fib">>),
                     reasoning_content |-> AbsentV],
                    [content |-> Str(<<"const", " ", "fib">>), reasoning_content |-> AbsentV],
                    [content |-> NoneV, reasoning_content |-> AbsentV],
                    [content |-> NoneV, reasoning_content |-> NoneV],
                    [content |-> NoneV,
                     reasoning_content |-> Str(<<BQ, BQ, BQ, "t", "s", "\n", "function", " ",
                                                 "fib", "onacci", BQ, BQ, BQ>>)] }

\* the outcome of client.chat.completions.create: it raised, or a completion
ApiRaised == [raised |-> TRUE]
Completion(msg, e, n) ==
    [raised |-> FALSE, content |-> msg.content,
     reasoning_content |-> msg.reasoning_content, elapsed |-> e, total_tokens |-> n]

\* a successful call takes at least one tick and uses at least one token
LoopResponses(t) ==
    {ApiRaised} \cup {Completion(msg, e, n) :
                         msg \in LoopMessages(t), e \in 1..MaxElapsed, n \in 1..MaxTokens}

(***************************************************************************)
(* compare-models.py: one iteration of the test loop (lines 60-121)        *)
(***************************************************************************)
\* the try block up to the accumulation: [raised, score, elapsed, tokens];
\* raised is the except branch
TryBlock(t, resp) ==
    IF resp.raised THEN [raised |-> TRUE]
    ELSE LET ex == ExtractContent(resp.content, resp.reasoning_content)
         IN  IF ex.raised THEN [raised |-> TRUE]
             ELSE [raised |-> FALSE, score |-> Score(t, ex.content),
                   elapsed |-> resp.elapsed, tokens |-> resp.total_tokens]

\* the accumulation with an except branch that records nothing
AccumulateSkipsFailure(acc, r) ==
    IF r.raised
    THEN acc
    ELSE [scores |-> Append(acc.scores, r.score),
          total_time |-> acc.total_time + r.elapsed,
          total_tokens |-> acc.total_tokens + r.tokens]

\* the accumulators after the iteration: lines 115-117, or line 121
Accumulate(acc, r) ==
    IF r.raised
    THEN [acc EXCEPT !.scores = Append(@, ScoreZero)]
    ELSE [scores |-> Append(acc.scores, r.score),
          total_time |-> acc.total_time + r.elapsed,
          total_tokens |-> acc.total_tokens + r.tokens]

RECURSIVE Sum(_)
Sum(s) == IF Len(s) = 0 THEN 0 ELSE s[1] + Sum(Tail(s))

\* results[model] before the summary: the [] of line 47
NoStats == [kind |-> "list"]

\* the summary with the average time taken over len(models)
ModelStatsOverModels(acc) ==
    [kind |-> "stats",
     avg_time |-> <<acc.total_time, Len(models)>>,
     total_tokens |-> acc.total_tokens,
     avg_score |-> IF Len(acc.scores) > 0 THEN <<Sum(acc.scores), Len(acc.scores)>>
                   ELSE <<0, 1>>,
     total_time |-> acc.total_time]

\* lines 124-130; the averages are fractions <<numerator, denominator>>
ModelStats(acc) ==
    [kind |-> "stats",
     avg_time |-> <<acc.total_time, Len(test_cases)>>,
     total_tokens |-> acc.total_tokens,
     avg_score |-> IF Len(acc.scores) > 0 THEN <<Sum(acc.scores), Len(acc.scores)>>
                   ELSE <<0, 1>>,
     total_time |-> acc.total_time]

\* a < b for fractions with positive denominators
FracLess(a, b) == a[1] * b[2] < b[1] * a[2]

\* a >= b * 0.9
FracGeqNineTenths(a, b) == 10 * a[1] * b[2] >= 9 * b[1] * a[2]

\* the decision with the quality threshold left out
V3BetterFasterOnly(v3_stats, r1_stats) ==
    FracLess(v3_stats.avg_time, r1_stats.avg_time)

\* lines 153-156
V3Better(v3_stats, r1_stats) ==
    /\ FracGeqNineTenths(v3_stats.avg_score, r1_stats.avg_score)
    /\ FracLess(v3_stats.avg_time, r1_stats.avg_time)

\* lines 145-169: the line printed, or the uncaught error
Recommendation(res) ==
    LET v3_stats == res[V3]
        r1_stats == res[R1]
    IN  IF v3_stats.kind = "stats" /\ r1_stats.kind = "stats"
        THEN IF V3Better(v3_stats, r1_stats)
             THEN IF v3_stats.avg_time[1] = 0 \/ r1_stats.total_tokens = 0
                  THEN "ZeroDivisionError"
                  ELSE "Use DeepSeek-V3.1"
             ELSE "Use DeepSeek-R1-0528"
        ELSE "nothing"

(***************************************************************************)
(* test-deepseek-timeout.py: the report of the single call (lines 53-98)   *)
(***************************************************************************)
\* len(x) is defined for a value of this kind
HasLen(kind) == kind \in {"list", "str", "dict"}

\* lines 85-92: the inner try block and its bare except
JsonNotice(response) ==
    LET r == JsonLoads(response)
    IN  IF ~r.ok THEN <<"not valid JSON">>
        ELSE <<"valid JSON">> \o
             (LET a == PyIn(TASKS, r.val)
              IN  IF a.raised THEN <<"not valid JSON">>
                  ELSE IF ~a.v THEN <<>>
                  ELSE IF r.val.kind = "dict" /\ HasLen(r.val.kinds[TASKS])
                  THEN <<"Number of tasks">>
                  ELSE <<"not valid JSON">>)

\* the lines the try block and its except handler print
TimeoutReport(resp) ==
    IF resp.raised THEN <<"FAILED">>
    ELSE <<"SUCCESS">> \o
         (IF ~IsStr(resp.content) THEN <<"FAILED">>
          ELSE JsonNotice(resp.content.v))

\* the responses the timeout test draws
TimeoutContents ==
    {NoneV} \cup {Str(s) : s \in JsonSamples \cup TextsUpTo(ScorePieces(2), MaxPieces - 2)
                              \cup { <<"{", Q, "tasks", Q, ":", "1", "}">>,
                                     <<"{", Q, "tasks", Q, ":", Q, "x", Q, "}">>,
                                     <<Q, "tasks", Q>>,
                                     <<"[", Q, "tasks", Q, "]">> }}

TimeoutResponses ==
    {ApiRaised} \cup {Completion([content |-> c, reasoning_content |-> AbsentV], 1, 1) :
                         c \in TimeoutContents}

(***************************************************************************)
(* tests/unit/api/test-both-models.py: the responses of one call           *)
(***************************************************************************)
BothResponses ==
    {ApiRaised} \cup {Completion(msg, 1, 1) :
                         msg \in { [content |-> Str(<<"4">>), reasoning_content |-> AbsentV],
                                   [content |-> NoneV, reasoning_content |-> NoneV],
                                   [content |-> NoneV,
                                    reasoning_content |-> Str(<<"x", "4">>)] }}

\* lines 19-45: the try block raised
BothTryRaised(resp) == resp.raised

(***************************************************************************)
(* The runs of the scripts                                                 *)
(***************************************************************************)
NoCalls == [m \in 1..Len(models) |-> [t \in 1..Len(test_cases) |-> 0]]

Init ==
    /\ script \in {"compare-models", "test-both-models", "test-deepseek-timeout"}
    /\ pc = IF script = "test-deepseek-timeout" THEN "call" ELSE "test"
    /\ mi = 1
    /\ ti = 1
    /\ scores = <<>>
    /\ total_time = 0
    /\ total_tokens = 0
    /\ results = [m \in {R1, V3} |-> NoStats]
    /\ test = 0
    /\ reasoning = AbsentV
    /\ content = NoneV
    /\ score = ScoreZero
    /\ output = <<>>
    /\ calls = NoCalls
    /\ failed = {}
    /\ ok_time = 0
    /\ ok_tokens = 0

\* compare-models.py, lines 60-121: one test case of the current model
TestStep ==
    /\ script = "compare-models"
    /\ pc = "test"
    /\ \E resp \in LoopResponses(ti) :
          LET r == TryBlock(test_cases[ti], resp)
              acc == Accumulate([scores |-> scores, total_time |-> total_time,
                                 total_tokens |-> total_tokens], r)
          IN  /\ scores' = acc.scores
              /\ total_time' = acc.total_time
              /\ total_tokens' = acc.total_tokens
              /\ failed' = IF r.raised THEN failed \cup {ti} ELSE failed
              /\ ok_time' = IF r.raised THEN ok_time ELSE ok_time + resp.elapsed
              /\ ok_tokens' = IF r.raised THEN ok_tokens ELSE ok_tokens + resp.total_tokens
    /\ calls' = [calls EXCEPT ![mi][ti] = @ + 1]
    /\ IF ti < Len(test_cases)
       THEN ti' = ti + 1 /\ pc' = "test"
       ELSE ti' = ti /\ pc' = "summary"
    /\ UNCHANGED <<script, mi, results, test, reasoning, content, score, output>>

\* compare-models.py, lines 123-130: the summary of the current model
Summary ==
    /\ script = "compare-models"
    /\ pc = "summary"
    /\ results' = [results EXCEPT ![models[mi]] =
                      ModelStats([scores |-> scores, total_time |-> total_time,
                                  total_tokens |-> total_tokens])]
    /\ pc' = "next"
    /\ UNCHANGED <<script, mi, ti, scores, total_time, total_tokens, test, reasoning,
                   content, score, output, calls, failed, ok_time, ok_tokens>>

\* compare-models.py, lines 51-58: the next model, or the end of the loop
NextModel ==
    /\ script = "compare-models"
    /\ pc = "next"
    /\ IF mi < Len(models)
       THEN /\ mi' = mi + 1
            /\ ti' = 1
            /\ scores' = <<>>
            /\ total_time' = 0
            /\ total_tokens' = 0
            /\ failed' = {}
            /\ ok_time' = 0
            /\ ok_tokens' = 0
            /\ pc' = "test"
       ELSE /\ pc' = "final"
            /\ UNCHANGED <<mi, ti, scores, total_time, total_tokens, failed, ok_time,
                           ok_tokens>>
    /\ UNCHANGED <<script, results, test, reasoning, content, score, output, calls>>

\* compare-models.py, lines 132-169: the final comparison and the recommendation
Final ==
    /\ script = "compare-models"
    /\ pc = "final"
    /\ LET line == Recommendation(results)
       IN  IF line = "ZeroDivisionError"
           THEN pc' = "crashed" /\ output' = output
           ELSE /\ pc' = "done"
                /\ output' = IF line = "nothing" THEN output ELSE Append(output, line)
    /\ UNCHANGED <<script, mi, ti, scores, total_time, total_tokens, results, test,
                   reasoning, content, score, calls, failed, ok_time, ok_tokens>>

\* test-both-models.py, lines 17-45: one model
BothStep ==
    /\ script = "test-both-models"
    /\ pc = "test"
    /\ \E resp \in BothResponses :
          /\ failed' = IF BothTryRaised(resp) THEN failed \cup {mi} ELSE failed
          /\ output' = Append(output, IF BothTryRaised(resp) THEN "Error" ELSE "Success")
    /\ calls' = [calls EXCEPT ![mi][1] = @ + 1]
    /\ IF mi < Len(models)
       THEN mi' = mi + 1 /\ pc' = "test"
       ELSE mi' = mi /\ pc' = "done"
    /\ UNCHANGED <<script, ti, scores, total_time, total_tokens, results, test, reasoning,
                   content, score, ok_time, ok_tokens>>

\* test-deepseek-timeout.py, lines 53-98: the call and its report
TimeoutCall ==
    /\ script = "test-deepseek-timeout"
    /\ pc = "call"
    /\ \E resp \in TimeoutResponses :
          /\ output' = output \o TimeoutReport(resp)
          /\ content' = IF resp.raised THEN content ELSE resp.content
          /\ failed' = IF resp.raised THEN {1} ELSE failed
    /\ calls' = [calls EXCEPT ![1][1] = @ + 1]
    /\ pc' = "complete"
    /\ UNCHANGED <<script, mi, ti, scores, total_time, total_tokens, results, test,
                   reasoning, score, ok_time, ok_tokens>>

\* test-deepseek-timeout.py, lines 100-102
TimeoutComplete ==
    /\ script = "test-deepseek-timeout"
    /\ pc = "complete"
    /\ output' = Append(output, "TEST COMPLETE")
    /\ pc' = "done"
    /\ UNCHANGED <<script, mi, ti, scores, total_time, total_tokens, results, test,
                   reasoning, content, score, calls, failed, ok_time, ok_tokens>>

Next ==
    \/ TestStep
    \/ Summary
    \/ NextModel
    \/ Final
    \/ BothStep
    \/ TimeoutCall
    \/ TimeoutComplete

Spec == Init /\ [][Next]_vars

(***************************************************************************)
(* Runs of the scorer alone: a test case and a response content are drawn, *)
(* and the scorer is applied                                               *)
(***************************************************************************)
InitScore ==
    /\ script = "scorer"
    /\ pc = "score"
    /\ test \in 1..Len(test_cases)
    /\ content \in ScoreContents(test)
    /\ score = ScoreZero
    /\ reasoning = AbsentV
    /\ mi = 1
    /\ ti = 1
    /\ scores = <<>>
    /\ total_time = 0
    /\ total_tokens = 0
    /\ results = [m \in {R1, V3} |-> NoStats]
    /\ output = <<>>
    /\ calls = NoCalls
    /\ failed = {}
    /\ ok_time = 0
    /\ ok_tokens = 0

\* lines 88-107
ScoreStep ==
    /\ script = "scorer"
    /\ pc = "score"
    /\ score' = Score(test_cases[test], content)
    /\ pc' = "scored"
    /\ UNCHANGED <<script, mi, ti, scores, total_time, total_tokens, results, test,
                   reasoning, content, output, calls, failed, ok_time, ok_tokens>>

NextScore == ScoreStep

SpecScore == InitScore /\ [][NextScore]_vars

(***************************************************************************)
(* Runs of the extraction alone: a message is drawn and lines 73-86 are    *)
(* applied                                                                 *)
(***************************************************************************)
InitExtract ==
    /\ script = "extraction"
    /\ pc = "extract"
    /\ content \in {NoneV, Str(<<"x">>)}
    /\ reasoning \in ReasoningValues
    /\ test = 0
    /\ score = ScoreZero
    /\ mi = 1
    /\ ti = 1
    /\ scores = <<>>
    /\ total_time = 0
    /\ total_tokens = 0
    /\ results = [m \in {R1, V3} |-> NoStats]
    /\ output = <<>>
    /\ calls = NoCalls
    /\ failed = {}
    /\ ok_time = 0
    /\ ok_tokens = 0

\* lines 73-86; output keeps the message's content field
ExtractStep ==
    /\ script = "extraction"
    /\ pc = "extract"
    /\ LET ex == ExtractContent(content, reasoning)
       IN  /\ content' = ex.content
           /\ pc' = IF ex.raised THEN "raised" ELSE "extracted"
    /\ output' = <<content>>
    /\ UNCHANGED <<script, mi, ti, scores, total_time, total_tokens, results, test,
                   reasoning, score, calls, failed, ok_time, ok_tokens>>

NextExtract == ExtractStep

SpecExtract == InitExtract /\ [][NextExtract]_vars

(***************************************************************************)
(* Properties                                                              *)
(***************************************************************************)
\* the number of times line x was printed
Count(lines, x) == Cardinality({i \in 1..Len(lines) : lines[i] = x})

ModelIds == 1..2
TestIds == 1..4

\* the (model, test case) pairs whose call precedes the current position
LoopReached(m, t) ==
    CASE pc = "test" -> m < mi \/ (m = mi /\ t < ti)
      [] pc \in {"summary", "next"} -> m <= mi
      [] OTHER -> TRUE

\* C1: in compare-models.py and in test-both-models.py no call is issued
\* twice, the calls issued are exactly those of the pairs before the current
\* position whatever calls failed (so every pair has been called once when
\* the loops are over), and in compare-models.py every call so far has left
\* one score, which is 0 for a call that failed.
C1_FailedCallNeverHalts ==
    /\ \A m \in ModelIds : \A t \in TestIds : calls[m][t] <= 1
    /\ script = "compare-models" =>
          /\ \A m \in ModelIds : \A t \in TestIds :
                calls[m][t] = IF LoopReached(m, t) THEN 1 ELSE 0
          /\ Len(scores) = Cardinality({t \in TestIds : calls[mi][t] = 1})
          /\ \A t \in failed : t <= Len(scores) /\ scores[t] = 0
    /\ script = "test-both-models" =>
          \A m \in ModelIds :
             calls[m][1] = IF m < mi \/ pc = "done" THEN 1 ELSE 0

\* C1 witness: compare-models.py reached its end although the first call of
\* the second model failed and the first model got no point at all
C1_Witness ==
    /\ script = "compare-models"
    /\ pc = "done"
    /\ 1 \in failed
    /\ results[R1].avg_score[1] = 0
    /\ \A m \in ModelIds : \A t \in TestIds : calls[m][t] = 1

\* C9: when the loop of a model is over, scores has one entry per test case,
\* each 0, 0.5 or 1 and 0 for a failed call; the totals are those of the
\* calls that did not fail; and, once summarised, avg_score is
\* sum(scores) / 4, avg_time is total elapsed time / 4 and total_tokens the
\* tokens of the calls that did not fail.
C9_Accumulation ==
    (script = "compare-models" /\ pc \in {"summary", "next", "final", "done", "crashed"}) =>
       /\ Len(scores) = 4
       /\ \A i \in 1..Len(scores) : scores[i] \in {0, 1, 2}
       /\ \A t \in failed : scores[t] = 0
       /\ total_time = ok_time
       /\ total_tokens = ok_tokens
       /\ pc # "summary" =>
             LET stats == results[models[mi]]
             IN  /\ stats.kind = "stats"
                 /\ stats.avg_score[1] * 4 = Sum(scores) * stats.avg_score[2]
                 /\ stats.avg_time[1] * 4 = ok_time * stats.avg_time[2]
                 /\ stats.total_tokens = ok_tokens
                 /\ stats.total_time = ok_time

\* C9 witness: the second model is summarised after some calls failed and
\* some did not
C9_Witness ==
    /\ script = "compare-models"
    /\ pc = "next"
    /\ mi = 2
    /\ failed = {1, 3}
    /\ results[V3].kind = "stats"
    /\ results[V3].total_tokens = 2

\* the recommendation printed, "" when none was
Recommended == IF Len(output) = 0 THEN "" ELSE output[Len(output)]

\* a's average score is at least 90% of b's and a's average time is lower
SimilarAndFaster(a, b) ==
    /\ 10 * a.avg_score[1] * b.avg_score[2] >= 9 * b.avg_score[1] * a.avg_score[2]
    /\ a.avg_time[1] * b.avg_time[2] < b.avg_time[1] * a.avg_time[2]

HigherScore(a, b) == a.avg_score[1] * b.avg_score[2] > b.avg_score[1] * a.avg_score[2]

\* C3 as stated: whichever model is the faster one is recommended if its
\* score is at least 90% of the other's and its time strictly lower, and in
\* every other case the model with the higher average score is recommended.
C3_AsStated ==
    (script = "compare-models" /\ pc = "done") =>
       LET v3 == results[V3]
           r1 == results[R1]
       IN  IF SimilarAndFaster(v3, r1) THEN Recommended = "Use DeepSeek-V3.1"
           ELSE IF SimilarAndFaster(r1, v3) THEN Recommended = "Use DeepSeek-R1-0528"
           ELSE /\ HigherScore(v3, r1) => Recommended = "Use DeepSeek-V3.1"
                /\ HigherScore(r1, v3) => Recommended = "Use DeepSeek-R1-0528"

\* C3 amended: DeepSeek-R1-0528 is recommended exactly when DeepSeek-V3.1 is
\* not both similar in quality (at least 90% of R1's average score) and
\* strictly faster, whichever model has the higher score; when V3.1 is both,
\* V3.1 is recommended, unless its average time is 0, where the run ends in
\* the division of line 159 and recommends nothing.
C3_FixedRoles ==
    (script = "compare-models" /\ pc \in {"done", "crashed"}) =>
       LET v3 == results[V3]
           r1 == results[R1]
       IN  /\ Recommended = "Use DeepSeek-R1-0528" <=> ~SimilarAndFaster(v3, r1)
           /\ Recommended = "Use DeepSeek-V3.1" <=>
                 (SimilarAndFaster(v3, r1) /\ v3.avg_time[1] # 0)
           /\ pc = "crashed" <=> (SimilarAndFaster(v3, r1) /\ v3.avg_time[1] = 0)

\* C3 witness: R1 is recommended although V3.1 has the higher average score
\* and R1, the faster of the two, has less than 90% of it
C3_Witness ==
    /\ script = "compare-models"
    /\ pc = "done"
    /\ Recommended = "Use DeepSeek-R1-0528"
    /\ HigherScore(results[V3], results[R1])
    /\ ~SimilarAndFaster(results[R1], results[V3])

\* C8: a run of compare-models.py never ends in an uncaught error, and when
\* it is over it has printed exactly one recommendation.
C8_NeverCrashes ==
    script = "compare-models" =>
       /\ pc # "crashed"
       /\ pc = "done" => Len(output) = 1

\* C10: test-deepseek-timeout.py prints exactly one of SUCCESS and FAILED,
\* after SUCCESS exactly one of the two JSON notices, and TEST COMPLETE last.
C10_OneOutcome ==
    (script = "test-deepseek-timeout" /\ pc = "done") =>
       /\ Count(output, "SUCCESS") + Count(output, "FAILED") = 1
       /\ Count(output, "SUCCESS") = 1 =>
             Count(output, "valid JSON") + Count(output, "not valid JSON") = 1
       /\ output[Len(output)] = "TEST COMPLETE"

\* the response is a JSON object with a "type" and a "tasks" member
IsTaskObject(c) ==
    /\ IsStr(c)
    /\ JsonLoads(c.v).ok
    /\ JsonLoads(c.v).val.kind = "dict"
    /\ {TYPE, TASKS} \subseteq JsonLoads(c.v).val.keys

\* C2: for the JSON test case the score is 1 if the response parses as JSON
\* and the value has a "type" and a "tasks" field, and 0 for every other
\* response, the empty and the absent one and the values that are no objects
\* included.
C2_JsonShape ==
    (script = "scorer" /\ pc = "scored" /\ test = 2) =>
       score = IF IsTaskObject(content) THEN 2 ELSE 0

\* C5: an absent or empty response never scores 0.5, and a non-empty
\* response that does not score 1 scores 0 or 0.5.
C5_PartialCreditNeedsResponse ==
    (script = "scorer" /\ pc = "scored") =>
       /\ ~Truthy(content) => score # ScoreHalf
       /\ (Truthy(content) /\ score # ScoreOne) => score \in {ScoreZero, ScoreHalf}

\* C6: for the test cases with "expected" or "expected_contains" the score is
\* 1 exactly when the response contains the configured string, compared
\* case-insensitively, and 0 or 0.5 otherwise.
C6_ExpectedString ==
    (script = "scorer" /\ pc = "scored" /\ test \in {1, 3}) =>
       LET wanted == IF test = 1 THEN <<"4", "2">> ELSE <<"w", "e", "b">>
           found == IsStr(content) /\ Contains(Lower(content.v), wanted)
       IN  /\ found => score = 2
           /\ ~found => score \in {0, 1}

\* C6 witness: the substring rule scored 1 for a response in mixed case
C6_Witness ==
    /\ script = "scorer"
    /\ pc = "scored"
    /\ test = 3
    /\ content = Str(<<"b", "W", "e", "B">>)
    /\ score = 2

\* C7: for the code test case the score is 1 exactly when the response
\* contains "function" and one of "fibonacci" and "fib", and 0 for a
\* non-empty response that lacks either.
C7_CodePattern ==
    (script = "scorer" /\ pc = "scored" /\ test = 4) =>
       LET marked == /\ IsStr(content)
                     /\ Contains(content.v, <<"function">>)
                     /\ \/ Contains(content.v, <<"fib", "onacci">>)
                        \/ Contains(content.v, <<"fib">>)
       IN  /\ score = 2 <=> marked
           /\ (Truthy(content) /\ ~marked) => score = 0

\* C7 witness: "function fib" scored 1
C7_Witness ==
    /\ script = "scorer"
    /\ pc = "scored"
    /\ test = 4
    /\ content = Str(<<"function", " ", "fib">>)
    /\ score = 2

\* the text after the first fence of r, up to the next fence or the end
FirstFenced(r) ==
    LET rest == SubSeq(r, Find(r, FENCE) + 3, Len(r))
        close == Find(rest, FENCE)
    IN  IF close = 0 THEN rest ELSE SubSeq(rest, 1, close - 1)

\* the language tags of the reasoning texts
LanguageTags == {JSON_TAG, <<"t", "s">>}

\* seg, the text of a fenced block, opens with the language tag: the tag
\* follows the fence at once and white space follows the tag
OpensWithTag(seg, tag) ==
    /\ StartsWith(seg, tag)
    /\ Len(seg) > Len(tag)
    /\ IsSpace(seg[Len(tag) + 1])

\* s without the leading tag
CutTag(s, tag) == IF StartsWith(s, tag) THEN Strip(SubSeq(s, Len(tag) + 1, Len(s))) ELSE s

\* the extraction was applied: the content field was None and reasoning a text
Extracted ==
    /\ script = "extraction"
    /\ pc = "extracted"
    /\ IsNone(output[1])
    /\ IsStr(reasoning)

\* C4 as stated: with a fenced block in the reasoning text the content is
\* the text between the first two fences without its leading language tag,
\* whatever the language (white space around it aside); without a fence it
\* is the reasoning text.
C4_AsStated ==
    Extracted =>
       IF Contains(reasoning.v, FENCE)
       THEN Len(Split(reasoning.v, FENCE)) > 2 =>
               \A tag \in LanguageTags :
                  OpensWithTag(FirstFenced(reasoning.v), tag) =>
                     content = Str(CutTag(Strip(FirstFenced(reasoning.v)), tag))
       ELSE content = reasoning

\* C4 amended: with a fence in the reasoning text the content is the text
\* after the first fence, up to the next fence or else to the end, with the
\* white space around it removed and then, only if it starts with "json",
\* those four characters and the white space after them removed; without a
\* fence it is the reasoning text unchanged.
C4_JsonTagOnly ==
    Extracted =>
       IF Contains(reasoning.v, FENCE)
       THEN content = Str(CutTag(Strip(FirstFenced(reasoning.v)), JSON_TAG))
       ELSE content = reasoning

\* C4 witness: a fenced block with a json tag was extracted
C4_Witness ==
    /\ Extracted
    /\ reasoning = Str(FENCE \o JSON_TAG \o <<" ", "x">> \o FENCE)
    /\ content = Str(<<"x">>)

====
